---- MODULE Spec2Model ----
(***************************************************************************)
(* compare_matrix.py: two GeEC correlation matrices are loaded, joined on  *)
(* their common identifiers, the differences are sorted and written.       *)
(*                                                                         *)
(* Text is modelled as sequences of one-character strings.  Floating point *)
(* numbers are modelled as integers counting units of 1e-05, so that 0.5   *)
(* is 50000 and 1e-05 is 1; NaN is a reserved integer.                     *)
(***************************************************************************)
EXTENDS Integers, Sequences, FiniteSets, TLC

\* Largest number of column labels of a generated header.
MaxCols == 3

\* What genfromtxt stores for a field that is not a number.
NaN == -10000000

None == [none |-> TRUE]

TAB == "\t"
NL == "\n"
Whitespace == {" ", TAB, NL}

Range(s) == {s[i] : i \in 1..Len(s)}

Reverse(s) == [i \in 1..Len(s) |-> s[Len(s) + 1 - i]]

RECURSIVE Concat(_)
Concat(ss) ==
    IF ss = <<>> THEN <<>> ELSE Head(ss) \o Concat(Tail(ss))

(***************************************************************************)
(* str methods used by the loader                                          *)
(***************************************************************************)
RECURSIVE rstrip(_)
rstrip(s) ==
    IF s = <<>> THEN s
    ELSE IF s[Len(s)] \in Whitespace THEN rstrip(SubSeq(s, 1, Len(s) - 1))
    ELSE s

RECURSIVE split(_, _)
split(s, sep) ==
    IF \A i \in 1..Len(s) : s[i] # sep THEN <<s>>
    ELSE LET i == CHOOSE k \in 1..Len(s) :
                      s[k] = sep /\ \A m \in 1..(k - 1) : s[m] # sep
         IN <<SubSeq(s, 1, i - 1)>> \o split(SubSeq(s, i + 1, Len(s)), sep)

\* split('_')[-1]
field_striper(one_field) ==
    LET parts == split(one_field, "_") IN parts[Len(parts)]

(***************************************************************************)
(* Floats and their text                                                   *)
(***************************************************************************)
fabs(x) == IF x = NaN THEN NaN ELSE IF x < 0 THEN -x ELSE x

fsub(x, y) == IF x = NaN \/ y = NaN THEN NaN ELSE x - y

DigitChar(d) == <<"0", "1", "2", "3", "4", "5", "6", "7", "8", "9">>[d + 1]

RECURSIVE IntDigits(_)
IntDigits(n) ==
    IF n < 10 THEN <<DigitChar(n)>>
    ELSE IntDigits(n \div 10) \o <<DigitChar(n % 10)>>

RECURSIVE StripZeros(_)
StripZeros(s) ==
    IF Len(s) > 1 /\ s[Len(s)] = "0" THEN StripZeros(SubSeq(s, 1, Len(s) - 1))
    ELSE s

FracDigits(f) ==
    StripZeros(<<DigitChar(f \div 10000), DigitChar((f \div 1000) % 10),
                 DigitChar((f \div 100) % 10), DigitChar((f \div 10) % 10),
                 DigitChar(f % 10)>>)

\* The text numpy stores for a Python float in a string array: repr switches
\* to scientific notation below 1e-04.
RECURSIVE FloatStr(_)
FloatStr(x) ==
    IF x = NaN THEN <<"n", "a", "n">>
    ELSE IF x < 0 THEN <<"-">> \o FloatStr(-x)
    ELSE IF x = 0 THEN <<"0", ".", "0">>
    ELSE IF x < 10 THEN <<DigitChar(x), "e", "-", "0", "5">>
    ELSE IntDigits(x \div 100000) \o <<".">> \o FracDigits(x % 100000)

\* Code points of the characters of a float's text.
Ord(c) ==
    CASE c = "-" -> 45
      [] c = "." -> 46
      [] c = "a" -> 97
      [] c = "e" -> 101
      [] c = "n" -> 110
      [] OTHER -> 48 + (CHOOSE d \in 0..9 : DigitChar(d) = c)

\* s < t for two strings of a numpy string array.
RECURSIVE StrLess(_, _)
StrLess(s, t) ==
    IF t = <<>> THEN FALSE
    ELSE IF s = <<>> THEN TRUE
    ELSE IF Ord(Head(s)) # Ord(Head(t)) THEN Ord(Head(s)) < Ord(Head(t))
    ELSE StrLess(Tail(s), Tail(t))

(***************************************************************************)
(* numpy                                                                   *)
(***************************************************************************)
Ok(v) == [ok |-> TRUE, val |-> v]

Raise(e) == [ok |-> FALSE, err |-> e]

\* A field of a data line: a number, or text such as the row label.
Num(x) == [num |-> x]

Txt(s) == [txt |-> s]

ParseFloat(f) == IF "num" \in DOMAIN f THEN f.num ELSE NaN

\* np.genfromtxt(rows, delimiter="\t", usecols=usecols) on the lines left in
\* the file.  An empty usecols is falsy and selects every column; lines of
\* different widths are an error; the result is squeezed.
genfromtxt(rows, usecols) ==
    IF rows = <<>> THEN Ok([ndim |-> 1, data |-> <<>>])
    ELSE IF \E i \in 1..Len(rows) : Len(rows[i]) # Len(rows[1])
    THEN Raise("ValueError")
    ELSE LET cols == IF usecols = <<>>
                     THEN [j \in 1..Len(rows[1]) |-> j - 1]
                     ELSE usecols
         IN Ok([ndim |-> (IF Len(rows) > 1 THEN 1 ELSE 0)
                         + (IF Len(cols) > 1 THEN 1 ELSE 0),
                data |-> [i \in 1..Len(rows) |->
                            [j \in 1..Len(cols) |->
                                ParseFloat(rows[i][cols[j] + 1])]]])

\* array[line, col] with zero-based indices.
MatrixAt(array, line, col) ==
    IF array.ndim # 2 THEN Raise("IndexError")
    ELSE IF line >= Len(array.data) \/ col >= Len(array.data[1])
    THEN Raise("IndexError")
    ELSE Ok(array.data[line + 1][col + 1])

\* np.array(total_diff_list): a list that mixes str and float becomes an
\* array of strings; the empty list becomes a one-dimensional empty array.
NpArray(list) ==
    IF list = <<>> THEN [ndim |-> 1, data |-> <<>>]
    ELSE [ndim |-> 2,
          data |-> [i \in 1..Len(list) |->
                      <<list[i][1], list[i][2], FloatStr(list[i][3]),
                        FloatStr(list[i][4]), FloatStr(list[i][5])>>]]

\* The index lists argsort may return for a column of strings: every order
\* of the positions in which the keys ascend (quicksort is not stable).
RECURSIVE ArgSorts(_, _)
ArgSorts(keys, S) ==
    IF S = {} THEN {<<>>}
    ELSE UNION {{<<i>> \o t : t \in ArgSorts(keys, S \ {i})} :
                  i \in {k \in S : \A j \in S : ~StrLess(keys[j], keys[k])}}

(***************************************************************************)
(* class Matrix                                                            *)
(***************************************************************************)
\* self.dico after the first k fields were entered: a later field with the
\* same identifier replaces the position of the earlier one.
RECURSIVE BuildDico(_, _)
BuildDico(header, k) ==
    IF k = 0 THEN [id \in {} |-> 0]
    ELSE LET d == BuildDico(header, k - 1)
         IN [id \in DOMAIN d \cup {header[k]} |->
                IF id = header[k] THEN k - 1 ELSE d[id]]

parse_header(line) ==
    LET fields == Tail(split(rstrip(line), TAB))
        header == [i \in 1..Len(fields) |-> field_striper(fields[i])]
    IN [header |-> header, dico |-> BuildDico(header, Len(header))]

\* genfromtxt told to skip one more line, as if the header were still unread.
parse_matrix_skip(rows, header) ==
    genfromtxt(IF rows = <<>> THEN rows ELSE Tail(rows),
               [j \in 1..Len(header) |-> j])

\* used_cols = range(1, len(self.header) + 1)
parse_matrix(rows, header) ==
    genfromtxt(rows, [j \in 1..Len(header) |-> j])

\* Matrix(matrix_file): readline() hands the first line to parse_header and
\* leaves the other lines to parse_matrix.
Matrix(matrix_file) ==
    LET h == parse_header(matrix_file.header)
        m == parse_matrix(matrix_file.rows, h.header)
    IN IF m.ok
       THEN Ok([header |-> h.header, dico |-> h.dico, matrix |-> m.val])
       ELSE m

\* The whole header, without the test against the other matrix.
common_fields_all(self, matrix2) ==
    self.header

common_fields(self, matrix2) ==
    SelectSeq(self.header, LAMBDA field : field \in DOMAIN matrix2.dico)

Diff(value1, value2) == fabs(fsub(value2, value1))

\* value2 read at the positions of the first matrix.
DiffRow_samepos(self, matrix2, identifier1, identifier2) ==
    LET col1 == self.dico[identifier1]
        line1 == self.dico[identifier2]
        value1 == MatrixAt(self.matrix, line1, col1)
        value2 == MatrixAt(matrix2.matrix, line1, col1)
    IN IF value1.ok /\ value2.ok
       THEN Ok(<<identifier1, identifier2, value1.val, value2.val,
                 Diff(value1.val, value2.val)>>)
       ELSE Raise("IndexError")

\* The body of the two loops of join for one pair of identifiers.
DiffRow(self, matrix2, identifier1, identifier2) ==
    LET col1 == self.dico[identifier1]
        col2 == matrix2.dico[identifier1]
        line1 == self.dico[identifier2]
        line2 == matrix2.dico[identifier2]
        value1 == MatrixAt(self.matrix, line1, col1)
        value2 == MatrixAt(matrix2.matrix, line2, col2)
    IN IF value1.ok /\ value2.ok
       THEN Ok(<<identifier1, identifier2, value1.val, value2.val,
                 Diff(value1.val, value2.val)>>)
       ELSE Raise("IndexError")

\* The two enumerate loops of join from the counters (counter1, counter2) on.
RECURSIVE JoinLoop(_, _, _, _, _)
JoinLoop(self, matrix2, common, counter1, counter2) ==
    IF counter1 > Len(common) THEN <<>>
    ELSE IF counter2 > Len(common)
    THEN JoinLoop(self, matrix2, common, counter1 + 1, 1)
    ELSE (IF counter2 > counter1
          THEN <<DiffRow(self, matrix2, common[counter1], common[counter2])>>
          ELSE <<>>)
         \o JoinLoop(self, matrix2, common, counter1, counter2 + 1)

\* join: the list built by the loops and the array returned, or the
\* IndexError of the first read outside a matrix.
join(self, matrix2) ==
    LET common_identifiers == common_fields(self, matrix2)
        rows == JoinLoop(self, matrix2, common_identifiers, 1, 1)
        total_diff == [i \in 1..Len(rows) |-> rows[i].val]
    IN IF \E i \in 1..Len(rows) : ~rows[i].ok
       THEN Raise("IndexError")
       ELSE [ok |-> TRUE, list |-> total_diff, val |-> NpArray(total_diff)]

(***************************************************************************)
(* Module functions                                                        *)
(***************************************************************************)
\* The arrays sort_output may return: total_diff_list[:, 4] needs two
\* dimensions; the rows are taken in argsort's order and then reversed.
sort_output(total_diff_array) ==
    IF total_diff_array.ndim # 2 THEN {Raise("IndexError")}
    ELSE LET data == total_diff_array.data
             keys == [i \in 1..Len(data) |-> data[i][5]]
         IN {Ok([ndim |-> 2,
                 data |-> Reverse([i \in 1..Len(data) |-> data[index_list[i]]])]) :
               index_list \in ArgSorts(keys, 1..Len(data))}

\* write_diff_file hands the array to np.savetxt; the text format is not
\* modelled, the file written holds one line for each row of the array.
write_diff_file(diff_matrix) == [lines |-> diff_matrix.data]

(***************************************************************************)
(* Input files                                                             *)
(***************************************************************************)
Labels ==
    {<<"a", "_", "x">>, <<"a", "_", "b", "_", "x">>, <<"y">>, <<"c", "_", "z">>}

PlainLabels == {<<"a", "_", "x">>, <<"y">>, <<"c", "_", "z">>}

TwinLabels == {<<"a", "_", "x">>, <<"a", "_", "b", "_", "x">>, <<"y">>}

Vals == {0, 1, 50000}

SeqsUpTo(S, n) == UNION {[1..k -> S] : k \in 0..n}

\* A file no open() can read.
Absent == [absent |-> TRUE]

\* The header line: the ignored first field, a tab before every label, and
\* the end of the line.
HeaderLine(first, labels) ==
    first \o Concat([i \in 1..Len(labels) |-> <<TAB>> \o labels[i]]) \o <<NL>>

\* A file of r data lines under the labels: each line is a row label and one
\* number per label, cell[i, j] in line i under label j.
MkFile(first, labels, r, cell) ==
    [header |-> HeaderLine(first, labels),
     rows |-> [i \in 1..r |->
                <<Txt(IF i <= Len(labels) THEN labels[i] ELSE <<"X">>)>>
                \o [j \in 1..Len(labels) |-> Num(cell[i, j])]]]

\* Ones on the diagonal; off it a value that differs from pair to pair, plus
\* u above the diagonal and l below it.
Banded(r, n, u, l) ==
    [i \in 1..r, j \in 1..n |->
        IF i = j THEN 100000
        ELSE 1000 * i * j + 100 * (i + j) + (IF i < j THEN u ELSE l)]

\* Ones on the diagonal, up[{i, j}] above it; below it the mirror image, or
\* low everywhere when low is a number of Vals.
Triangular(n, up, low) ==
    [i \in 1..n, j \in 1..n |->
        IF i = j THEN 100000
        ELSE IF i < j \/ low \notin Vals THEN up[{i, j}]
        ELSE low]

Pairs(n) == {{i, j} : i \in 1..n, j \in 1..n} \ {{i} : i \in 1..n}

RefLabels == <<<<"a", "_", "x">>, <<"y">>, <<"c", "_", "z">>>>

PermLabels == <<<<"c", "_", "z">>, <<"a", "_", "b", "_", "x">>, <<"y">>>>

RefFile == MkFile(<<>>, RefLabels, Len(RefLabels), Banded(Len(RefLabels), Len(RefLabels), 0, 0))

\* A file without any line: readline() returns the empty string.
EmptyFile == [header |-> <<>>, rows |-> <<>>]

\* The second data line lacks its last field.
RaggedFile ==
    [RefFile EXCEPT !.rows[2] = SubSeq(RefFile.rows[2], 1, Len(RefLabels))]

(***************************************************************************)
(* main                                                                    *)
(***************************************************************************)
VARIABLES
    file1, file2,       \* the files named by args.matrix1 and args.matrix2
    pc,                 \* the statement main is at
    matrix1, matrix2,   \* the two Matrix objects
    total_diff_list,    \* the list join builds
    diff_list,          \* the array join returns
    sorted_diff_list,   \* the array sort_output returns
    output,             \* the rows written to args.output
    err                 \* the exception that left main

vars == <<file1, file2, pc, matrix1, matrix2, total_diff_list, diff_list,
          sorted_diff_list, output, err>>

\* One file with any header, any number of lines and a banded body, compared
\* with the reference file.
LoaderInputs ==
    \E first \in {<<>>, <<"X">>}, labels \in SeqsUpTo(TwinLabels, MaxCols),
       r \in 0..(MaxCols + 1), u \in {0, 50000}, l \in {0, 50000} :
        /\ file1 = MkFile(first, labels, r, Banded(r, Len(labels), u, l))
        /\ file2 = RefFile

\* Two square files: the first with any header, the second with up to two
\* labels or with three different ones in any order.
HeaderInputs ==
    \E la \in SeqsUpTo(Labels, MaxCols),
       lb \in SeqsUpTo(PlainLabels, 2)
               \cup {h \in [1..3 -> PlainLabels] : Range(h) = PlainLabels} :
        /\ file1 = MkFile(<<>>, la, Len(la), Banded(Len(la), Len(la), 50000, 50000))
        /\ file2 = MkFile(<<>>, lb, Len(lb), Banded(Len(lb), Len(lb), 1, 1))

\* Two files over the same identifiers in different column orders, with any
\* values above the diagonal.
ValueInputs ==
    LET n == Len(RefLabels)
    IN \E ua \in [Pairs(n) -> Vals], low \in Vals \cup {-1},
          ub \in [Pairs(n) -> Vals] :
           /\ file1 = MkFile(<<>>, RefLabels, n, Triangular(n, ua, low))
           /\ file2 = MkFile(<<>>, PermLabels, n, Triangular(n, ub, -1))

\* Files that cannot be opened or read, or that hold no line at all.
BrokenInputs ==
    /\ file1 \in {Absent, RaggedFile, EmptyFile, RefFile}
    /\ file2 \in {Absent, RaggedFile, EmptyFile, RefFile}

Init ==
    /\ LoaderInputs \/ HeaderInputs \/ ValueInputs \/ BrokenInputs
    /\ pc = "open"
    /\ matrix1 = None
    /\ matrix2 = None
    /\ total_diff_list = <<>>
    /\ diff_list = None
    /\ sorted_diff_list = None
    /\ output = None
    /\ err = "None"

\* with open(args.matrix1, 'r') as file1, open(args.matrix2, 'r') as file2
OpenFiles ==
    /\ pc = "open"
    /\ IF file1 = Absent \/ file2 = Absent
       THEN pc' = "error" /\ err' = "IOError"
       ELSE pc' = "load1" /\ err' = err
    /\ UNCHANGED <<file1, file2, matrix1, matrix2, total_diff_list, diff_list,
                   sorted_diff_list, output>>

\* matrix1 = Matrix(file1)
LoadMatrix1 ==
    /\ pc = "load1"
    /\ LET m == Matrix(file1)
       IN IF m.ok
          THEN matrix1' = m.val /\ pc' = "load2" /\ err' = err
          ELSE matrix1' = matrix1 /\ pc' = "error" /\ err' = m.err
    /\ UNCHANGED <<file1, file2, matrix2, total_diff_list, diff_list,
                   sorted_diff_list, output>>

\* matrix2 = Matrix(file2)
LoadMatrix2 ==
    /\ pc = "load2"
    /\ LET m == Matrix(file2)
       IN IF m.ok
          THEN matrix2' = m.val /\ pc' = "join" /\ err' = err
          ELSE matrix2' = matrix2 /\ pc' = "error" /\ err' = m.err
    /\ UNCHANGED <<file1, file2, matrix1, total_diff_list, diff_list,
                   sorted_diff_list, output>>

\* diff_list = matrix1.join(matrix2)
Join ==
    /\ pc = "join"
    /\ LET d == join(matrix1, matrix2)
       IN IF d.ok
          THEN /\ total_diff_list' = d.list
               /\ diff_list' = d.val
               /\ pc' = "sort"
               /\ err' = err
          ELSE /\ UNCHANGED <<total_diff_list, diff_list>>
               /\ pc' = "error"
               /\ err' = d.err
    /\ UNCHANGED <<file1, file2, matrix1, matrix2, sorted_diff_list, output>>

\* sorted_diff_list = sort_output(diff_list)
SortOutput ==
    /\ pc = "sort"
    /\ \E s \in sort_output(diff_list) :
          IF s.ok
          THEN sorted_diff_list' = s.val /\ pc' = "write" /\ err' = err
          ELSE sorted_diff_list' = sorted_diff_list /\ pc' = "error" /\ err' = s.err
    /\ UNCHANGED <<file1, file2, matrix1, matrix2, total_diff_list, diff_list,
                   output>>

\* The write moved into a finally clause: it also runs when a step raised.
WriteDiffFile_finally ==
    /\ pc \in {"write", "error"}
    /\ output = None
    /\ output' = IF sorted_diff_list = None THEN [lines |-> <<>>]
                 ELSE write_diff_file(sorted_diff_list)
    /\ pc' = IF pc = "write" THEN "done" ELSE pc
    /\ UNCHANGED <<file1, file2, matrix1, matrix2, total_diff_list, diff_list,
                   sorted_diff_list, err>>

\* write_diff_file(sorted_diff_list, args.output)
WriteDiffFile ==
    /\ pc = "write"
    /\ output' = write_diff_file(sorted_diff_list)
    /\ pc' = "done"
    /\ UNCHANGED <<file1, file2, matrix1, matrix2, total_diff_list, diff_list,
                   sorted_diff_list, err>>

Next ==
    \/ OpenFiles
    \/ LoadMatrix1
    \/ LoadMatrix2
    \/ Join
    \/ SortOutput
    \/ WriteDiffFile

Spec == Init /\ [][Next]_vars

(***************************************************************************)
(* Properties                                                              *)
(***************************************************************************)
\* The labels of a file's header line, as the loader cuts them.
LabelsOf(file) == Tail(split(rstrip(file.header), TAB))

\* Loading file1 (file2) has been attempted and is over.
Loading1Over == pc \notin {"open", "load1"} /\ err # "IOError"

Loading2Over == pc \notin {"open", "load1", "load2"} /\ matrix1 # None

BothLoaded == matrix1 # None /\ matrix2 # None

\* The number a string of the difference column stands for.
FloatVal(s) ==
    CHOOSE x \in {total_diff_list[k][5] : k \in 1..Len(total_diff_list)} :
        FloatStr(x) = s

\* Two labels of the header stand for the same identifier.
DuplicateIdentifiers(file) ==
    \E i \in 1..Len(LabelsOf(file)), j \in 1..Len(LabelsOf(file)) :
        i < j /\ field_striper(LabelsOf(file)[i]) = field_striper(LabelsOf(file)[j])

\* The header line is empty, or the data lines are not as many as the labels.
Malformed(file) ==
    \/ rstrip(file.header) = <<>>
    \/ Len(file.rows) # Len(LabelsOf(file))

\* A file as the format wants it: a header, as many data lines as labels, and
\* no identifier twice.
WellFormed(file) == ~Malformed(file) /\ ~DuplicateIdentifiers(file)

\* C1: join over a common-identifier list of size n produces exactly
\* n*(n-1)/2 records, none with id1 = id2, and no unordered pair {id1, id2}
\* in two records (stated for files with a header and as many data lines as
\* labels).
C1_JoinPairs ==
    (diff_list # None /\ ~Malformed(file1) /\ ~Malformed(file2)) =>
        LET n == Len(common_fields(matrix1, matrix2))
            list == total_diff_list
        IN /\ 2 * Len(list) = n * (n - 1)
           /\ \A k \in 1..Len(list) : list[k][1] # list[k][2]
           /\ \A k \in 1..Len(list), m \in 1..Len(list) :
                 k # m => {list[k][1], list[k][2]} # {list[m][1], list[m][2]}

\* C2: the sequence sort_output returns has its diff values (fifth field) in
\* numerically non-increasing order (stated for well-formed files).
C2_SortedDescending ==
    (sorted_diff_list # None /\ WellFormed(file1) /\ WellFormed(file2)) =>
        \A i \in 1..(Len(sorted_diff_list.data) - 1) :
            FloatVal(sorted_diff_list.data[i][5])
                >= FloatVal(sorted_diff_list.data[i + 1][5])

\* C3: when the two matrices share no identifier, join followed by
\* sort_output raises no error and yields an empty sequence, and the output
\* written is empty (stated for well-formed files with at least one label).
C3_EmptyIntersection ==
    (/\ BothLoaded
     /\ WellFormed(file1) /\ WellFormed(file2)
     /\ matrix1.header # <<>> /\ matrix2.header # <<>>
     /\ common_fields(matrix1, matrix2) = <<>>) =>
        /\ pc # "error"
        /\ sorted_diff_list # None => sorted_diff_list.data = <<>>
        /\ pc = "done" => output = [lines |-> <<>>]

\* C4: loading a matrix whose header holds two labels that strip to the same
\* identifier fails with DuplicateIdentifierError and produces no Matrix
\* (stated for files that are not malformed otherwise).
C4_DuplicateIdentifierRejected ==
    /\ (Loading1Over /\ DuplicateIdentifiers(file1) /\ ~Malformed(file1)) =>
           matrix1 = None /\ err = "DuplicateIdentifierError"
    /\ (Loading2Over /\ DuplicateIdentifiers(file2) /\ ~Malformed(file2)) =>
           matrix2 = None /\ err = "DuplicateIdentifierError"

\* C5: loading fails with MalformedInputError, and produces no Matrix, when
\* the header line is empty or the number of data rows differs from the
\* number of header labels (stated for files without duplicate identifiers).
C5_MalformedInputRejected ==
    /\ (Loading1Over /\ Malformed(file1) /\ ~DuplicateIdentifiers(file1)) =>
           matrix1 = None /\ err = "MalformedInputError"
    /\ (Loading2Over /\ Malformed(file2) /\ ~DuplicateIdentifiers(file2)) =>
           matrix2 = None /\ err = "MalformedInputError"

\* C6: after a successful load the identifier list holds the stripped header
\* labels in the header's order, and index_of[identifiers[i]] = i for every
\* position i of the list (stated for files with a header and as many data
\* lines as labels).
C6_IndexOfPosition ==
    (matrix1 # None /\ ~Malformed(file1)) =>
        /\ Len(matrix1.header) = Len(LabelsOf(file1))
        /\ \A i \in 1..Len(matrix1.header) :
              /\ matrix1.header[i] = field_striper(LabelsOf(file1)[i])
              /\ matrix1.dico[matrix1.header[i]] = i - 1

SquareSymmetricBody(file) ==
    /\ Len(file.rows) = Len(LabelsOf(file))
    /\ \A i \in 1..Len(file.rows), j \in 1..Len(file.rows) :
          file.rows[i][j + 1] = file.rows[j][i + 1]

C9_CommonFieldsCommute ==
    BothLoaded =>
        /\ Range(common_fields(matrix1, matrix2))
               = Range(common_fields(matrix2, matrix1))
        /\ Range(common_fields(matrix1, matrix2))
               = Range(matrix1.header) \cap DOMAIN matrix2.dico

\* C9's case: the two matrices share some but not all identifiers, in
\* different orders.
C9_Witness ==
    /\ BothLoaded
    /\ Len(common_fields(matrix1, matrix2)) >= 2
    /\ Len(common_fields(matrix1, matrix2)) < Len(matrix1.header)
    /\ common_fields(matrix1, matrix2) # common_fields(matrix2, matrix1)

\* C10: main runs load A, load B, join, sort, write in this order; the
\* output is written only after all four earlier steps succeeded, and a run
\* that ends in an error has written nothing.
C10_WriteAfterAll ==
    /\ matrix2 # None => matrix1 # None
    /\ diff_list # None => matrix2 # None
    /\ sorted_diff_list # None => diff_list # None
    /\ output # None =>
          sorted_diff_list # None /\ pc = "done" /\ err = "None"
    /\ pc = "error" => output = None /\ err # "None"

\* C10's case: a run wrote a sorted output of several records.
C10_Witness ==
    pc = "done" /\ output # None /\ Len(output.lines) >= 2

====
